---- MODULE Spec2Model ----
(***************************************************************************)
(* ARTSy (src/artsy/main.py): a Bokeh server application showing a time    *)
(* series of precipitation rasters.  The model covers the callbacks the    *)
(* application registers on the document (timeout and next-tick            *)
(* callbacks), the column data sources they read and write, and the three  *)
(* user events (range change, tap, date selection).                        *)
(*                                                                         *)
(* Physical values are in hundredths of an inch, times in milliseconds.    *)
(* Indices stored in the data sources are 0-based as in the source;        *)
(* TLA+ sequences are 1-based, so axis[i + 1] is the source's axis[i].     *)
(***************************************************************************)
EXTENDS Integers, Sequences, FiniteSets, TLC

\* ------------------------------------------------------------------ bounds
\* granularity of the clock: time advances by at most Quantum ms per step
Quantum == 50
\* number of successful reloads followed in one behaviour (startup included)
MaxLoads == 3
\* click tasks that may be pending at the same time
MaxPendingClicks == 2
\* browser events (range changes, taps, date selections) in one behaviour
MaxEvents == 4

\* ------------------------------------------------------- program constants
MIN_VAL == 0
MAX_VAL == 300
GREY_THRESHOLD == 1
\* a histogram timeout registered with half the delay
ViewportDelay_Short == 100 \div 2

\* delay of the histogram timeout registered by update_histogram
ViewportDelay == 100
\* delay of the reload timeout registered by update_data
DataDelay == 100
\* delay of the marker timeout registered by move_click_marker
ClickDelay == 50
\* the histogram step registered in seconds instead of milliseconds
HistStepDelay_Slow == 10 * 1000

\* the histogram step registered without a delay
HistStepDelay_Zero == 10 - 10

\* delay of the histogram timeout registered by _update_data
HistStepDelay == 10

\* ------------------------------------------------------------ the data files
\* what load_data returns for a date: the raster (rows along Y, columns along
\* X; values below MIN_VAL are masked), the two axes and the valid date
Files ==
  [d1 |-> [data |-> << <<20, 110, 290>>, <<5, -1, 350>> >>,
           xn |-> <<0, 10, 20>>, yn |-> <<0, 10>>, valid_date |-> "d1"],
   d2 |-> [data |-> << <<0, 40>>, <<150, -1>> >>,
           xn |-> <<10, 20>>, yn |-> <<0, 10>>, valid_date |-> "d2"],
   d3 |-> [data |-> << <<30, 60>>, <<90, 120>> >>,
           xn |-> <<0, 10, 20>>, yn |-> <<0, 10>>, valid_date |-> "d3"]]

\* the files whose axes agree with the shape of their raster
GoodDates == {"d1", "d2"}
\* every file of the data directory, a malformed one (d3) included
AllDates == {"d1", "d2", "d3"}

\* the newest date, selected at startup (dates[0])
LatestDate == "d2"

\* coordinates a tap event can carry
ClickPoints == {<<12, 2>>, <<25, 9>>}

\* viewports a pan/zoom can produce
Extents ==
  {[left |-> 0, right |-> 20, bottom |-> 0, top |-> 10],
   [left |-> 12, right |-> 25, bottom |-> 8, top |-> 30]}

\* ---------------------------------------------------------------- helpers
Abs(v) == IF v < 0 THEN 0 - v ELSE v

Min2(a, b) == IF a < b THEN a ELSE b

RECURSIVE SeqMax(_)
SeqMax(s) == IF Len(s) = 1 THEN s[1]
             ELSE LET m == SeqMax(Tail(s)) IN IF s[1] >= m THEN s[1] ELSE m

RECURSIVE Flatten(_)
Flatten(rows) == IF rows = <<>> THEN <<>> ELSE Head(rows) \o Flatten(Tail(rows))

\* np.abs(axis - q).argmin(): the first index of the smallest distance
RECURSIVE ArgMinFrom(_, _, _, _)
ArgMinFrom(axis, q, i, best) ==
  IF i > Len(axis) THEN best - 1
  ELSE IF Abs(axis[i] - q) < Abs(axis[best] - q)
       THEN ArgMinFrom(axis, q, i + 1, i)
       ELSE ArgMinFrom(axis, q, i + 1, best)

\* a lookup of the last element that is not above q
NearestIdx_Floor(axis, q) ==
  LET S == {i \in 1..Len(axis) : axis[i] <= q}
  IN  IF S = {} THEN 0 ELSE Cardinality(S) - 1

NearestIdx(axis, q) == ArgMinFrom(axis, q, 2, 1)

\* a[lo:hi] of Python, for 0 <= lo
Slice(s, lo, hi) ==
  LET h == Min2(hi, Len(s))
  IN  IF lo >= h THEN <<>> ELSE [k \in 1..(h - lo) |-> s[lo + k]]

\* masked_regrid[bottom:top, left:right]
SubGrid(data, bottom, top, left, right) ==
  LET rows == Slice(data, bottom, top)
  IN  [r \in 1..Len(rows) |-> Slice(rows[r], left, right)]

\* np.ma.masked_less(regridded_data, MIN_VAL)
Masked(v) == v < MIN_VAL

\* levels: MaxNLocator(nbins=10*MAX_VAL + 1).tick_values(0, MAX_VAL)
levels == [i \in 1..31 |-> (i - 1) * 10]

\* lev = np.insert(levels, 1, GREY_THRESHOLD)
lev == <<levels[1], GREY_THRESHOLD>> \o Tail(levels)

NBins == Len(lev) - 1

\* np.histogram: bin b holds lev[b] <= v < lev[b+1], the last bin is closed
InBin(v, b) ==
  /\ lev[b] <= v
  /\ IF b = NBins THEN v <= lev[b + 1] ELSE v < lev[b + 1]

\* a histogram of the values as they are
Clip_None(v) == v

\* subset.clip(max=MAX_VAL)
Clip(v) == IF v > MAX_VAL THEN MAX_VAL ELSE v

Histogram(cells) ==
  [b \in 1..NBins |-> Cardinality({k \in 1..Len(cells) : InBin(Clip(cells[k]), b)})]

\* float(new_subset.mean()): the mean of the cells that are not masked, as
\* <<sum, count>>; count = 0 is the masked mean, which float() turns into nan
RECURSIVE SumValid(_)
SumValid(cells) ==
  IF cells = <<>> THEN 0
  ELSE (IF Masked(Head(cells)) THEN 0 ELSE Head(cells)) + SumValid(Tail(cells))

MeanOf(cells) ==
  <<SumValid(cells), Cardinality({k \in 1..Len(cells) : ~Masked(cells[k])})>>

\* sm.to_rgba of a cell: -1 the masked ("bad") colour, 256 the "over" colour,
\* otherwise the index into the 256-entry colour table
Colorize(v) ==
  IF v < GREY_THRESHOLD THEN -1
  ELSE IF v > MAX_VAL THEN 256
  ELSE Min2((v * 256) \div MAX_VAL, 255)

\* ------------------------------------------------------------------ state
VARIABLES
  local_data_source,  \* the loaded raster, its axes and its valid date
  select_day,         \* value of the date selector
  range,              \* map_fig.x_range / y_range: left, right, bottom, top
  rgba_img_source,    \* the overlay image and its bounding box
  hist_top,           \* 'top' of every histogram bar (hist_sources)
  line_source,        \* the red line of the histogram figure
  hover_pt,           \* the marker: coordinates and indices
  info_data,          \* current_val and mean
  info_div,           \* the readout text, as <<current_val, mean>>
  timers,             \* pending timeout callbacks of the document, oldest first
  nextTick,           \* pending next-tick callbacks of the document, oldest first
  events,             \* number of browser events so far (history)
  snapGen,            \* number of snapshots written so far (history)
  hoverGen,           \* snapshots current when the click that set the marker was
                      \* made (sched) and when its task ran (fire) (history)
  done,               \* pipeline steps run since the last reload (history)
  last                \* what the last step did (history)

vars == <<local_data_source, select_day, range, rgba_img_source, hist_top,
          line_source, hover_pt, info_data, info_div, timers, nextTick,
          events, snapGen, hoverGen, done, last>>

views == <<rgba_img_source, hist_top, line_source, hover_pt, info_data, info_div>>

\* the record `last` of a step that is not a callback of interest
NoLast ==
  [op |-> "none", src |-> "none", age |-> 0, quiet |-> 0, gen |-> 0, sup |-> FALSE,
   raised |-> FALSE, wrote |-> FALSE, failed |-> FALSE, dropped |-> {},
   arg |-> <<>>]

\* local_data_source before the first load holds scalars, not arrays
Placeholder == local_data_source.xn = <<>>

Init ==
  /\ local_data_source =
       [masked_regrid |-> <<>>, xn |-> <<>>, yn |-> <<>>, valid_date |-> "now"]
  /\ select_day = LatestDate
  /\ range = [left |-> 0, right |-> 0, bottom |-> 0, top |-> 0]
  /\ rgba_img_source = [image |-> <<>>, x |-> <<>>, y |-> <<>>, dw |-> <<>>, dh |-> <<>>]
  /\ hist_top = [b \in 1..NBins |-> 3000000]
  /\ line_source = [x |-> <<-1>>, y |-> 1]
  /\ hover_pt = [x |-> 0, y |-> 0, x_idx |-> 0, y_idx |-> 0]
  /\ info_data = [current_val |-> <<0>>, mean |-> <<0, 1>>]
  /\ info_div = <<>>
  /\ timers = <<>>
  /\ nextTick = << [cb |-> "_update_data", partial |-> TRUE, arg |-> <<TRUE>>, gen |-> 0] >>
  /\ events = 0
  /\ snapGen = 0
  /\ hoverGen = [sched |-> 0, fire |-> 0]
  /\ done = {}
  /\ last = NoLast

\* ----------------------------------------------- the document's callbacks
\* a callable is registered at most once: a second registration of the same
\* function object raises ValueError; a functools.partial is a new object
\* at every call, so it never collides
IsPending(T, N, cb) ==
  \/ \E i \in 1..Len(T) : T[i].cb = cb /\ ~T[i].partial
  \/ \E i \in 1..Len(N) : N[i].cb = cb /\ ~N[i].partial

TimerOf(cb, partial, arg, delay, src, gen) ==
  [cb |-> cb, partial |-> partial, arg |-> arg, delay |-> delay, age |-> 0,
   quiet |-> 0, src |-> src, gen |-> gen, sup |-> FALSE]

TickOf(cb, partial, arg, gen) ==
  [cb |-> cb, partial |-> partial, arg |-> arg, gen |-> gen]

\* a document that accepts a second registration of a pending callable
add_timeout_callback_Always(T, N, t) == Append(T, t)

\* doc.add_timeout_callback(cb, delay) inside try/except ValueError: pass
add_timeout_callback(T, N, t) ==
  IF ~t.partial /\ IsPending(T, N, t.cb) THEN T ELSE Append(T, t)

\* doc.add_next_tick_callback(cb); the caller handles the ValueError
add_next_tick_callback(T, N, t) ==
  IF ~t.partial /\ IsPending(T, N, t.cb) THEN N ELSE Append(N, t)

\* an event of a channel ends the quiet period of the channel's pending tasks
Touch(T, ch) ==
  [i \in 1..Len(T) |-> IF T[i].src = ch THEN [T[i] EXCEPT !.quiet = 0] ELSE T[i]]

\* a handler whose registration fails whenever any timeout is pending
schedule_histogram_AnyPending(T, N) ==
  IF T # <<>> THEN Touch(T, "viewport")
  ELSE add_timeout_callback(T, N,
         TimerOf("_update_histogram", FALSE, <<>>, ViewportDelay, "viewport", 0))

\* the body of update_histogram: add_timeout_callback(_update_histogram, 100)
\* inside try/except ValueError
schedule_histogram(T, N) ==
  add_timeout_callback(Touch(T, "viewport"), N,
    TimerOf("_update_histogram", FALSE, <<>>, ViewportDelay, "viewport", 0))

RemoveAt(s, i) == [k \in 1..(Len(s) - 1) |-> IF k < i THEN s[k] ELSE s[k + 1]]

TimerDue(t) == t.age >= t.delay

\* the due timer that fires next: the oldest registration among the due ones
FirstDue ==
  IF \E i \in 1..Len(timers) : TimerDue(timers[i])
  THEN CHOOSE i \in 1..Len(timers) :
         /\ TimerDue(timers[i])
         /\ \A j \in 1..(i - 1) : ~TimerDue(timers[j])
  ELSE 0

\* the session has started once the startup callback has run: no browser
\* event can arrive before
Started == \A i \in 1..Len(nextTick) : ~(nextTick[i].cb = "_update_data")

\* ------------------------------------------------------------- load_data
\* a load that falls back to the newest file instead of raising
load_data_Fallback(date, ok) == [raised |-> FALSE, file |-> Files[LatestDate]]

\* load_data(date): the arrays of the file of that date; ok = FALSE is a
\* file that cannot be found or read, which raises
load_data(date, ok) == [raised |-> ~ok, file |-> Files[date]]

\* an update that replaces the raster and the date but not the axes
StoreSnapshot_KeepAxes(file) ==
  [masked_regrid |-> file.data, xn |-> local_data_source.xn,
   yn |-> local_data_source.yn, valid_date |-> file.valid_date]

\* the update of local_data_source made by _update_data: one dict.update
StoreSnapshot(file) ==
  [masked_regrid |-> file.data, xn |-> file.xn, yn |-> file.yn,
   valid_date |-> file.valid_date]

\* ------------------------------------------------------- callback bodies
\* Every body takes L, the history record of the callback that fires, and
\* T and N, the pending timeouts and next-tick callbacks once the firing
\* callback has been removed from them.

AddDone(gen, step) == IF gen > 0 /\ gen = snapGen THEN done \cup {step} ELSE done

\* a reload that calls load_data() with its default, the newest file
SelectedDate_Latest == LatestDate

\* date = file_dict[select_day.value]: the selection when the task runs
SelectedDate == select_day

\* _update_data(update_range)
update_data_task(L, arg, T, N) ==
  \E ok \in (IF snapGen < MaxLoads THEN BOOLEAN ELSE {FALSE}) :
    LET ld == load_data(SelectedDate, ok)
        g == snapGen + 1
        N1 == add_next_tick_callback(T, N, TickOf("_update_map", TRUE, arg, g))
        histPending == IsPending(T, N1, "_update_histogram")
        T1 == add_timeout_callback(T, N1,
                TimerOf("_update_histogram", FALSE, arg, HistStepDelay, "pipeline", g))
        markPending == IsPending(T1, N1, "_move_hist_line")
        \* the ValueError of line 270 leaves the coroutine before line 271
        N2 == IF histPending THEN N1
              ELSE add_next_tick_callback(T1, N1, TickOf("_move_hist_line", FALSE, <<>>, g))
    IN  IF ld.raised
        THEN /\ timers' = T
             /\ nextTick' = N
             /\ last' = [L EXCEPT !.raised = TRUE, !.failed = ~ok]
             /\ UNCHANGED <<local_data_source, select_day, range, rgba_img_source,
                            hist_top, line_source, hover_pt, info_data, info_div,
                            events, snapGen, hoverGen, done>>
        ELSE /\ local_data_source' = StoreSnapshot(ld.file)
             /\ timers' = T1
             /\ nextTick' = N2
             /\ snapGen' = g
             /\ done' = {}
             /\ last' = [L EXCEPT !.wrote = TRUE, !.failed = ~ok,
                                  !.raised = histPending \/ markPending,
                                  !.dropped = IF histPending /\ ~markPending
                                              THEN {"marker"} ELSE {}]
             /\ UNCHANGED <<select_day, range, rgba_img_source, hist_top,
                            line_source, hover_pt, info_data, info_div, events,
                            hoverGen>>

\* the bounding box of the overlay, padded by half a cell
BoundingBox(xn, yn) ==
  LET dx == xn[2] - xn[1]
      dy == yn[2] - yn[1]
  IN  [x |-> <<xn[1] - dx \div 2>>, y |-> <<yn[1] - dy \div 2>>,
       dw |-> <<xn[Len(xn)] - xn[1] + dx>>, dh |-> <<yn[Len(yn)] - yn[1] + dy>>]

\* _update_map(update_range)
update_map_task(L, arg, gen, T, N) ==
  IF Placeholder
  THEN /\ timers' = T
       /\ nextTick' = N
       /\ last' = [L EXCEPT !.raised = TRUE]
       /\ UNCHANGED <<local_data_source, select_day, range, rgba_img_source,
                      hist_top, line_source, hover_pt, info_data, info_div,
                      events, snapGen, hoverGen, done>>
  ELSE LET data == local_data_source.masked_regrid
           xn == local_data_source.xn
           yn == local_data_source.yn
           bb == BoundingBox(xn, yn)
           img == [r \in 1..Len(data) |->
                     [c \in 1..Len(data[r]) |-> Colorize(data[r][c])]]
           newRange == IF arg[1]
                       THEN [left |-> xn[1], right |-> xn[Len(xn)],
                             bottom |-> yn[1], top |-> yn[Len(yn)]]
                       ELSE range
           \* a changed range property calls update_histogram (on_change)
           changed == newRange # range
       IN  /\ rgba_img_source' = [image |-> img, x |-> bb.x, y |-> bb.y,
                                  dw |-> bb.dw, dh |-> bb.dh]
           /\ range' = newRange
           /\ timers' = IF changed THEN schedule_histogram(T, N) ELSE T
           /\ nextTick' = N
           /\ done' = AddDone(gen, "overlay")
           /\ last' = L
           /\ UNCHANGED <<local_data_source, select_day, hist_top, line_source,
                          hover_pt, info_data, info_div, events, snapGen, hoverGen>>

\* an index range whose upper end misses the + 1
HistIndexRange_NoPlusOne(axis, lo, hi) ==
  [lo |-> NearestIdx(axis, lo), hi |-> NearestIdx(axis, hi)]

\* left_idx / right_idx (bottom_idx / top_idx): the half-open index range of
\* the coordinates lo..hi on an axis
HistIndexRange(axis, lo, hi) ==
  [lo |-> NearestIdx(axis, lo), hi |-> NearestIdx(axis, hi) + 1]

\* an update that replaces the columns of info_data instead of updating one
HistInfo_Reset(info, mean) == [current_val |-> <<0>>, mean |-> mean]

\* info_data.data.update({'mean': [...]})
HistInfo(info, mean) == [info EXCEPT !.mean = mean]

\* _update_histogram()
update_histogram_task(L, gen, T, N) ==
  IF Placeholder
  THEN /\ timers' = T
       /\ nextTick' = N
       /\ last' = [L EXCEPT !.raised = TRUE]
       /\ UNCHANGED <<local_data_source, select_day, range, rgba_img_source,
                      hist_top, line_source, hover_pt, info_data, info_div,
                      events, snapGen, hoverGen, done>>
  ELSE LET data == local_data_source.masked_regrid
           xn == local_data_source.xn
           yn == local_data_source.yn
           left_idx == HistIndexRange(xn, range.left, range.right).lo
           right_idx == HistIndexRange(xn, range.left, range.right).hi
           bottom_idx == HistIndexRange(yn, range.bottom, range.top).lo
           top_idx == HistIndexRange(yn, range.bottom, range.top).hi
           new_subset == Flatten(SubGrid(data, bottom_idx, top_idx, left_idx, right_idx))
           counts == Histogram(new_subset)
       IN  /\ line_source' = [line_source EXCEPT !.y = SeqMax(counts)]
           /\ hist_top' = counts
           /\ info_data' = HistInfo(info_data, MeanOf(new_subset))
           /\ timers' = T
           /\ nextTick' = add_next_tick_callback(T, N,
                            TickOf("_update_div_text", FALSE, <<>>, 0))
           /\ done' = AddDone(gen, "histogram")
           /\ last' = L
           /\ UNCHANGED <<local_data_source, select_day, range, rgba_img_source,
                          hover_pt, info_div, events, snapGen, hoverGen>>

\* both indices looked up on the Y axis
ClickIndices_BothOnY(xn, yn, x, y) ==
  [x_idx |-> NearestIdx(yn, x), y_idx |-> NearestIdx(yn, y)]

\* the indices _move_click_marker computes for an event at (x, y)
ClickIndices(xn, yn, x, y) ==
  [x_idx |-> NearestIdx(xn, x), y_idx |-> NearestIdx(yn, y)]

\* _move_click_marker(event)
move_click_marker_task(L, arg, T, N) ==
  IF Placeholder
  THEN /\ timers' = T
       /\ nextTick' = N
       /\ last' = [L EXCEPT !.raised = TRUE]
       /\ UNCHANGED <<local_data_source, select_day, range, rgba_img_source,
                      hist_top, line_source, hover_pt, info_data, info_div,
                      events, snapGen, hoverGen, done>>
  ELSE LET xn == local_data_source.xn
           yn == local_data_source.yn
           idx == ClickIndices(xn, yn, arg[1], arg[2])
       IN  /\ hover_pt' = [x |-> xn[idx.x_idx + 1], y |-> yn[idx.y_idx + 1],
                           x_idx |-> idx.x_idx, y_idx |-> idx.y_idx]
           /\ hoverGen' = [sched |-> L.gen, fire |-> snapGen]
           /\ timers' = T
           /\ nextTick' = add_next_tick_callback(T, N,
                            TickOf("_move_hist_line", FALSE, <<>>, 0))
           /\ last' = [L EXCEPT !.raised = IsPending(T, N, "_move_hist_line")]
           /\ UNCHANGED <<local_data_source, select_day, range, rgba_img_source,
                          hist_top, line_source, info_data, info_div, events,
                          snapGen, done>>

\* masked_regrid[y_idx, x_idx] is inside the raster
InRaster(data, y_idx, x_idx) ==
  /\ y_idx < Len(data)
  /\ x_idx < Len(data[y_idx + 1])

\* float(val): a masked value becomes nan, written <<>>
FloatOf(val) == IF Masked(val) THEN <<>> ELSE <<val>>

\* the position of the red line for a value; comparisons with a masked
\* value are not true, so a masked value is stored as it is
LineX(val) ==
  IF Masked(val) THEN <<>>
  ELSE IF val <= MIN_VAL THEN <<(MIN_VAL * 105) \div 100>>
  ELSE IF val > MAX_VAL THEN <<(MAX_VAL * 99) \div 100>>
  ELSE <<val>>

\* _move_hist_line()
move_hist_line_task(L, gen, T, N) ==
  IF Placeholder \/ ~InRaster(local_data_source.masked_regrid,
                              hover_pt.y_idx, hover_pt.x_idx)
  THEN /\ timers' = T
       /\ nextTick' = N
       /\ last' = [L EXCEPT !.raised = TRUE]
       /\ UNCHANGED <<local_data_source, select_day, range, rgba_img_source,
                      hist_top, line_source, hover_pt, info_data, info_div,
                      events, snapGen, hoverGen, done>>
  ELSE LET val == local_data_source.masked_regrid[hover_pt.y_idx + 1][hover_pt.x_idx + 1]
           divPending == IsPending(T, N, "_update_div_text")
       IN  /\ info_data' = [info_data EXCEPT !.current_val = FloatOf(val)]
           /\ timers' = T
           /\ nextTick' = add_next_tick_callback(T, N,
                            TickOf("_update_div_text", FALSE, <<>>, 0))
           \* the ValueError of line 305 leaves the coroutine before line 311
           /\ line_source' = IF divPending THEN line_source
                             ELSE [line_source EXCEPT !.x = LineX(val)]
           /\ done' = AddDone(gen, "marker")
           /\ last' = [L EXCEPT !.wrote = TRUE, !.raised = divPending]
           /\ UNCHANGED <<local_data_source, select_day, range, rgba_img_source,
                          hist_top, hover_pt, info_div, events, snapGen, hoverGen>>

\* _update_div_text()
update_div_text_task(L, T, N) ==
  /\ info_div' = <<info_data.current_val, info_data.mean>>
  /\ timers' = T
  /\ nextTick' = N
  /\ last' = L
  /\ UNCHANGED <<local_data_source, select_day, range, rgba_img_source,
                 hist_top, line_source, hover_pt, info_data, events, snapGen,
                 hoverGen, done>>

\* ------------------------------------------------------------ the events
\* update_histogram(attr, old, new): the on_change handler of the four range
\* properties, called when a pan or zoom of the browser changes the range
update_histogram(e) ==
  /\ Started
  /\ e # range
  /\ range' = e
  /\ events < MaxEvents
  /\ events' = events + 1
  /\ timers' = schedule_histogram(timers, nextTick)
  /\ last' = [NoLast EXCEPT !.op = "update_histogram",
                            !.raised = IsPending(timers, nextTick, "_update_histogram")]
  /\ UNCHANGED <<local_data_source, select_day, rgba_img_source, hist_top,
                 line_source, hover_pt, info_data, info_div, nextTick, snapGen,
                 hoverGen, done>>

ClickTimers(T) == {i \in 1..Len(T) : T[i].cb = "_move_click_marker"}

\* move_click_marker(event): the handler of the Tap event
move_click_marker(p) ==
  /\ Started
  /\ Cardinality(ClickTimers(timers)) < MaxPendingClicks
  /\ events < MaxEvents
  /\ events' = events + 1
  /\ timers' = add_timeout_callback(
                 [i \in 1..Len(timers) |->
                    IF timers[i].src = "click"
                    THEN [timers[i] EXCEPT !.sup = TRUE, !.quiet = 0] ELSE timers[i]],
                 nextTick,
                 TimerOf("_move_click_marker", TRUE, p, ClickDelay, "click", snapGen))
  /\ last' = [NoLast EXCEPT !.op = "move_click_marker", !.arg = p]
  /\ UNCHANGED <<local_data_source, select_day, range, rgba_img_source, hist_top,
                 line_source, hover_pt, info_data, info_div, nextTick, snapGen,
                 hoverGen, done>>

\* update_data(attr, old, new): the on_change handler of the date selector
update_data(d) ==
  /\ Started
  /\ d # select_day
  /\ select_day' = d
  /\ events < MaxEvents
  /\ events' = events + 1
  /\ timers' = add_timeout_callback(Touch(timers, "data"), nextTick,
                 TimerOf("_update_data", FALSE, <<FALSE>>, DataDelay, "data", 0))
  /\ last' = [NoLast EXCEPT !.op = "update_data",
                            !.raised = IsPending(timers, nextTick, "_update_data")]
  /\ UNCHANGED <<local_data_source, range, rgba_img_source, hist_top,
                 line_source, hover_pt, info_data, info_div, nextTick, snapGen,
                 hoverGen, done>>

\* ------------------------------------------------------------ the event loop
TimerL(t) ==
  [NoLast EXCEPT !.op = t.cb, !.src = t.src, !.age = t.age, !.quiet = t.quiet,
                 !.gen = t.gen, !.sup = t.sup, !.arg = t.arg]

TickL(e) == [NoLast EXCEPT !.op = e.cb, !.src = "tick", !.gen = e.gen, !.arg = e.arg]

TickReady(cb) == nextTick # <<>> /\ Head(nextTick).cb = cb

TimerReady(cb) == FirstDue # 0 /\ timers[FirstDue].cb = cb

\* the startup callback: doc.add_next_tick_callback(partial(_update_data, True))
StartupUpdateData ==
  /\ TickReady("_update_data")
  /\ update_data_task(TickL(Head(nextTick)), Head(nextTick).arg, timers, Tail(nextTick))

UpdateData ==
  /\ TimerReady("_update_data")
  /\ update_data_task(TimerL(timers[FirstDue]), timers[FirstDue].arg,
                      RemoveAt(timers, FirstDue), nextTick)

UpdateMap ==
  /\ TickReady("_update_map")
  /\ update_map_task(TickL(Head(nextTick)), Head(nextTick).arg, Head(nextTick).gen,
                     timers, Tail(nextTick))

UpdateHistogram ==
  /\ TimerReady("_update_histogram")
  /\ update_histogram_task(TimerL(timers[FirstDue]), timers[FirstDue].gen,
                           RemoveAt(timers, FirstDue), nextTick)

MoveClickMarker ==
  /\ TimerReady("_move_click_marker")
  /\ move_click_marker_task(TimerL(timers[FirstDue]), timers[FirstDue].arg,
                            RemoveAt(timers, FirstDue), nextTick)

MoveHistLine ==
  /\ TickReady("_move_hist_line")
  /\ move_hist_line_task(TickL(Head(nextTick)), Head(nextTick).gen,
                         timers, Tail(nextTick))

UpdateDivText ==
  /\ TickReady("_update_div_text")
  /\ update_div_text_task(TickL(Head(nextTick)), timers, Tail(nextTick))

\* time to the next deadline, at most Quantum
Advance ==
  LET S == {timers[i].delay - timers[i].age : i \in 1..Len(timers)}
      m == IF S = {} THEN Quantum ELSE CHOOSE v \in S : \A w \in S : v <= w
  IN  Min2(Quantum, m)

\* time passes: only when no callback is ready to run
Tick ==
  /\ nextTick = <<>>
  /\ FirstDue = 0
  /\ timers' = [i \in 1..Len(timers) |->
                  [timers[i] EXCEPT !.age = @ + Advance, !.quiet = @ + Advance]]
  /\ last' = [NoLast EXCEPT !.op = "tick"]
  /\ UNCHANGED <<local_data_source, select_day, range, rgba_img_source, hist_top,
                 line_source, hover_pt, info_data, info_div, nextTick, events,
                 snapGen,
                 hoverGen, done>>

Callbacks ==
  \/ StartupUpdateData
  \/ UpdateData
  \/ UpdateMap
  \/ UpdateHistogram
  \/ MoveClickMarker
  \/ MoveHistLine
  \/ UpdateDivText
  \/ Tick

\* the data directory holds well-formed files only
Next ==
  \/ \E e \in Extents : update_histogram(e)
  \/ \E p \in ClickPoints : move_click_marker(p)
  \/ \E d \in GoodDates : update_data(d)
  \/ Callbacks

Spec == Init /\ [][Next]_vars

\* the data directory also holds a file whose axes disagree with its raster
NextMalformed ==
  \/ \E e \in Extents : update_histogram(e)
  \/ \E p \in ClickPoints : move_click_marker(p)
  \/ \E d \in AllDates : update_data(d)
  \/ Callbacks

SpecMalformed == Init /\ [][NextMalformed]_vars

\* ------------------------------------------------------- arbitrary inputs
\* strictly increasing axes
InputAxes == {<<0, 10>>, <<10, 30>>, <<0, 10, 30>>, <<0, 10, 20, 30>>}

\* coordinates an event can carry: below an axis, between two elements,
\* halfway between two elements, above an axis
InputCoords == {-5, 5, 15, 24, 25, 40}

\* values of a cell: masked, ordinary, above the highest level
InputValues == {-1, 5, 350}

\* a raster whose cells all differ, with values from 0 up to the highest
\* level and above
GridOf(xn, yn) == [r \in 1..Len(yn) |-> [c \in 1..Len(xn) |-> 10 * yn[r] + xn[c]]]

\* files with axes of every kind
AxisFiles ==
  {[data |-> GridOf(xn, yn), xn |-> xn, yn |-> yn, valid_date |-> LatestDate] :
     xn \in InputAxes, yn \in InputAxes}

\* files with cells of every kind
CellFiles ==
  UNION {{[data |-> d, xn |-> xn, yn |-> <<0, 10>>, valid_date |-> LatestDate] :
            d \in [1..2 -> [1..Len(xn) -> InputValues]]} :
         xn \in {<<10, 30>>, <<0, 10, 30>>}}

\* viewports with left <= right and bottom <= top
AxisExtents ==
  {e \in [left : InputCoords, right : InputCoords, bottom : {-5, 40}, top : {40}] \cup
         [left : {-5}, right : {-5, 40}, bottom : InputCoords, top : InputCoords] :
     e.left <= e.right /\ e.bottom <= e.top}

CellExtents ==
  {e \in [left : {-5, 12, 40}, right : {-5, 12, 40}, bottom : {-5, 40}, top : {-5, 40}] :
     e.left <= e.right /\ e.bottom <= e.top}

\* the document after the startup reload of a file and its pipeline have run
\* and the browser has sent the events that set the range to e and
\* registered the timeouts T
Loaded(file, e, T) ==
  LET bb == BoundingBox(file.xn, file.yn)
      all == Flatten(file.data)
      val == file.data[1][1]
  IN  /\ local_data_source = StoreSnapshot(file)
      /\ select_day = LatestDate
      /\ range = e
      /\ rgba_img_source =
           [image |-> [r \in 1..Len(file.data) |->
                         [c \in 1..Len(file.data[r]) |-> Colorize(file.data[r][c])]],
            x |-> bb.x, y |-> bb.y, dw |-> bb.dw, dh |-> bb.dh]
      /\ hist_top = Histogram(all)
      /\ line_source = [x |-> LineX(val), y |-> SeqMax(Histogram(all))]
      /\ hover_pt = [x |-> 0, y |-> 0, x_idx |-> 0, y_idx |-> 0]
      /\ info_data = [current_val |-> FloatOf(val), mean |-> MeanOf(all)]
      /\ info_div = <<FloatOf(val), MeanOf(all)>>
      /\ timers = T
      /\ nextTick = <<>>
      /\ events = Len(T)
      /\ snapGen = 1
      /\ hoverGen = [sched |-> 0, fire |-> 0]
      /\ done = {"overlay", "marker", "histogram"}
      /\ last = NoLast

\* a tap anywhere on a raster with axes of every kind
InitClick ==
  \E file \in AxisFiles : \E p \in InputCoords \X InputCoords :
    Loaded(file,
           [left |-> file.xn[1], right |-> file.xn[Len(file.xn)],
            bottom |-> file.yn[1], top |-> file.yn[Len(file.yn)]],
           << TimerOf("_move_click_marker", TRUE, p, ClickDelay, "click", 1) >>)

NextClick ==
  \/ MoveClickMarker
  \/ MoveHistLine
  \/ UpdateDivText
  \/ Tick

SpecClick == InitClick /\ [][NextClick]_vars

\* a range change to any viewport on a raster with axes of every kind or
\* with cells of every kind
InitHistogram ==
  \/ \E file \in AxisFiles : \E e \in AxisExtents :
       Loaded(file, e,
              << TimerOf("_update_histogram", FALSE, <<>>, ViewportDelay, "viewport", 0) >>)
  \/ \E file \in CellFiles : \E e \in CellExtents :
       Loaded(file, e,
              << TimerOf("_update_histogram", FALSE, <<>>, ViewportDelay, "viewport", 0) >>)

NextHistogram ==
  \/ UpdateHistogram
  \/ UpdateDivText
  \/ Tick

SpecHistogram == InitHistogram /\ [][NextHistogram]_vars

\* ================================================================= claims

\* C1: two events of one channel inside the debounce window give exactly one
\* task execution, with the arguments of the second event: a task that a
\* later event of its channel has superseded never runs (the task of the
\* first of two clicks never runs).
C1_SupersededTaskNeverRuns ==
  last.src \in {"viewport", "click", "data"} => ~last.sup

\* C2: a click task computes the marker indices on the axes that are active
\* when it fires, and the readout task it chains reads the raster that is
\* active when that one fires: the marker sits on the axis elements nearest
\* to the click on the current axes, and the readout is the current raster's
\* value at the marker indices.
C2_ClickResolvesAgainstActiveSnapshot ==
  /\ (last.op = "_move_click_marker" /\ ~Placeholder) =>
       LET xn == local_data_source.xn
           yn == local_data_source.yn
           i == hover_pt.x_idx + 1
           j == hover_pt.y_idx + 1
       IN  /\ i \in 1..Len(xn)
           /\ j \in 1..Len(yn)
           /\ hover_pt.x = xn[i]
           /\ hover_pt.y = yn[j]
           /\ \A k \in 1..Len(xn) : Abs(xn[i] - last.arg[1]) <= Abs(xn[k] - last.arg[1])
           /\ \A k \in 1..Len(yn) : Abs(yn[j] - last.arg[2]) <= Abs(yn[k] - last.arg[2])
           /\ hoverGen.fire = snapGen
  /\ (last.op = "_move_hist_line" /\ snapGen > 0 /\ hoverGen.fire = snapGen) =>
       LET v == local_data_source.masked_regrid[hover_pt.y_idx + 1][hover_pt.x_idx + 1]
       IN  /\ last.wrote
           /\ info_data.current_val = IF v < 0 THEN <<>> ELSE <<v>>

\* the readout task has run for a click made on the first snapshot whose
\* task fired on the second one, the file with the longer X axis
C2_Witness ==
  /\ last.op = "_move_hist_line"
  /\ last.wrote
  /\ hoverGen = [sched |-> 1, fire |-> 2]
  /\ snapGen = 2
  /\ local_data_source.valid_date = "d1"
  /\ hover_pt.x_idx = 2

\* C3: a data-select task whose load fails writes nothing and schedules
\* nothing: snapshot, views and range are as before the task, and no callback
\* has been added.
C3_FailedLoadChangesNothing ==
  [][(last'.op = "_update_data" /\ last'.failed) =>
       /\ local_data_source' = local_data_source
       /\ views' = views
       /\ range' = range
       /\ Len(timers') + Len(nextTick') = Len(timers) + Len(nextTick) - 1
       /\ \A i \in 1..Len(timers') : \E k \in 1..Len(timers) : timers'[i] = timers[k]
       /\ \A i \in 1..Len(nextTick') : \E k \in 1..Len(nextTick) : nextTick'[i] = nextTick[k]]_vars

\* a reload of another date than the active one has failed
C3_Witness ==
  /\ last.op = "_update_data"
  /\ last.failed
  /\ snapGen >= 1
  /\ select_day # local_data_source.valid_date

\* C4: raster, X axis, Y axis and valid date of the stored snapshot always
\* come from one load.
C4_SnapshotFromOneLoad ==
  \/ /\ local_data_source.masked_regrid = <<>>
     /\ local_data_source.xn = <<>>
     /\ local_data_source.yn = <<>>
     /\ local_data_source.valid_date = "now"
  \/ \E d \in AllDates :
       /\ local_data_source.masked_regrid = Files[d].data
       /\ local_data_source.xn = Files[d].xn
       /\ local_data_source.yn = Files[d].yn
       /\ local_data_source.valid_date = Files[d].valid_date

\* the histogram task has read a snapshot that replaced one with other axes
C4_Witness ==
  /\ last.op = "_update_histogram"
  /\ ~last.raised
  /\ snapGen >= 2
  /\ local_data_source.valid_date = "d1"

PipelineTasks == {"_update_map", "_update_histogram", "_move_hist_line"}

\* C5: every recomputation a reload has registered runs while the snapshot of
\* that reload is still the stored one: no recomputation of an earlier reload
\* is pending or running once a later reload has written.
C5_PipelineReadsItsOwnSnapshot ==
  /\ (last.op \in PipelineTasks /\ last.gen > 0) => last.gen = snapGen
  /\ \A i \in 1..Len(timers) : timers[i].src = "pipeline" => timers[i].gen = snapGen
  /\ \A i \in 1..Len(nextTick) : nextTick[i].gen > 0 => nextTick[i].gen = snapGen

\* the deferred histogram step of the second reload has run, after the two
\* other steps
C5_Witness ==
  /\ last.op = "_update_histogram"
  /\ last.src = "pipeline"
  /\ last.gen = 2
  /\ done = {"overlay", "histogram", "marker"}

\* C6 as stated: the steps of a pipeline run in the order overlay, histogram,
\* marker.
C6_OverlayHistogramMarker ==
  /\ "marker" \in done => "histogram" \in done
  /\ "histogram" \in done => "overlay" \in done

\* C6 amended: the steps of a pipeline run in the order overlay, marker,
\* histogram: when the histogram step the reload registered has run, the
\* overlay step has run and no marker step of that reload is still pending.
C6_OverlayMarkerHistogram ==
  /\ "marker" \in done => "overlay" \in done
  /\ "histogram" \in done =>
       /\ "overlay" \in done
       /\ \A i \in 1..Len(nextTick) :
            ~(nextTick[i].cb = "_move_hist_line" /\ nextTick[i].gen = snapGen)

\* the three steps of a reload made by a date selection have run, the
\* histogram last
C6_Witness ==
  /\ last.op = "_update_histogram"
  /\ last.src = "pipeline"
  /\ snapGen >= 2
  /\ done = {"overlay", "histogram", "marker"}
  /\ events >= 1

\* C7: every reload that has written the snapshot has the readout
\* recomputation scheduled.
C7_ReloadSchedulesReadout ==
  (last.op = "_update_data" /\ last.wrote) =>
     IsPending(timers, nextTick, "_move_hist_line")

\* C8: the stored snapshot never holds a raster whose shape differs from the
\* lengths of the stored axes.
C8_SnapshotShapeAgrees ==
  \/ Placeholder
  \/ /\ Len(local_data_source.masked_regrid) = Len(local_data_source.yn)
     /\ \A r \in 1..Len(local_data_source.masked_regrid) :
          Len(local_data_source.masked_regrid[r]) = Len(local_data_source.xn)

\* C9: no step of a data-select pipeline is dropped because a task of
\* another channel is pending.
C9_NoCrossChannelDrop == last.dropped = {}

\* C10 as stated: a debounced task fires only when its channel has been
\* quiet for the channel's delay.
C10_FiresAfterQuietPeriod ==
  /\ last.src = "viewport" => last.quiet >= 100
  /\ last.src = "click" => last.quiet >= 50
  /\ last.src = "data" => last.quiet >= 100

\* C10 amended: a debounced task fires no earlier than the channel's delay
\* after the event that registered it; later events of the channel do not
\* postpone it.
C10_FiresAfterRegistrationDelay ==
  /\ last.src = "viewport" => last.age >= 100
  /\ last.src = "click" => last.age >= 50
  /\ last.src = "data" => last.age >= 100

\* a histogram task has fired although a range change arrived while it was
\* pending
C10_Witness ==
  /\ last.op = "_update_histogram"
  /\ last.src = "viewport"
  /\ last.quiet < last.age

\* C11: a reload that writes the snapshot has loaded the date that is
\* selected when the task runs: a date selected earlier and replaced before
\* the task fired does not become the active raster.
C11_LoadsLatestSelection ==
  (last.op = "_update_data" /\ last.wrote) =>
     local_data_source.valid_date = select_day

\* a reload has written d2 although d1 was the selection that registered it:
\* the selection changed while the task was pending
C11_Witness ==
  /\ last.op = "_update_data"
  /\ last.src = "data"
  /\ last.wrote
  /\ last.quiet < last.age
  /\ local_data_source.valid_date = "d2"

\* the 1-based position of the axis element nearest to q, the lower one of
\* two equally near elements
Nearest1(axis, q) ==
  CHOOSE i \in 1..Len(axis) :
    \A j \in 1..Len(axis) :
      /\ Abs(axis[i] - q) <= Abs(axis[j] - q)
      /\ Abs(axis[i] - q) = Abs(axis[j] - q) => i <= j

\* the cells of the stored raster inside the current extent
ExtentCells ==
  LET data == local_data_source.masked_regrid
      xn == local_data_source.xn
      yn == local_data_source.yn
      rlo == Nearest1(yn, range.bottom)
      rhi == Nearest1(yn, range.top)
      clo == Nearest1(xn, range.left)
      chi == Nearest1(xn, range.right)
  IN  {rc \in (rlo..Min2(rhi, Len(data))) \X (clo..chi) : rc[2] <= Len(data[rc[1]])}

\* the histogram of the stored raster over the current extent
ExtentCounts ==
  LET data == local_data_source.masked_regrid
      cells == ExtentCells
  IN  [b \in 1..NBins |->
         Cardinality({rc \in cells :
           LET v == data[rc[1]][rc[2]]
               w == IF v > 300 THEN 300 ELSE v
           IN  /\ w >= lev[b]
               /\ b < NBins => w < lev[b + 1]})]

\* the published counts are those of the stored raster over the current extent
CountsCurrent == hist_top = ExtentCounts

\* the extent that covers the stored axes from end to end
FullExtent ==
  [left |-> local_data_source.xn[1],
   right |-> local_data_source.xn[Len(local_data_source.xn)],
   bottom |-> local_data_source.yn[1],
   top |-> local_data_source.yn[Len(local_data_source.yn)]]

\* i is an index of the axis, no element of the axis is nearer to q than
\* axis[i], and no element with a lower index is as near
IsNearest(axis, i, q) ==
  /\ i \in 0..(Len(axis) - 1)
  /\ \A j \in 0..(Len(axis) - 1) : Abs(axis[i + 1] - q) <= Abs(axis[j + 1] - q)
  /\ \A j \in 0..(i - 1) : Abs(axis[j + 1] - q) > Abs(axis[i + 1] - q)

\* C12: on every strictly increasing axis and for every query coordinate,
\* inside or outside the axis range, the lookup returns an index of the axis
\* whose element is nearest to the query, the lower index when two elements
\* are equally near; a query of 2.4 on the axis 0, 1, 2, 3 gives index 2.
C12_NearestIndexLowerOnTies ==
  /\ ~Placeholder =>
       \A q \in InputCoords :
         /\ IsNearest(local_data_source.xn, NearestIdx(local_data_source.xn, q), q)
         /\ IsNearest(local_data_source.yn, NearestIdx(local_data_source.yn, q), q)
  /\ (last.op = "_move_click_marker" /\ ~Placeholder) =>
       /\ IsNearest(local_data_source.xn, hover_pt.x_idx, last.arg[1])
       /\ IsNearest(local_data_source.yn, hover_pt.y_idx, last.arg[2])
  /\ NearestIdx(<<0, 10, 20, 30>>, 24) = 2

\* a click task has run for a tap halfway between two columns and above the
\* last row
C12_Witness ==
  /\ last.op = "_move_click_marker"
  /\ \E j \in 1..Len(local_data_source.xn) :
       /\ j > hover_pt.x_idx + 1
       /\ Abs(local_data_source.xn[j] - last.arg[1]) = Abs(hover_pt.x - last.arg[1])
  /\ last.arg[2] > local_data_source.yn[Len(local_data_source.yn)]
  /\ hover_pt.y_idx = Len(local_data_source.yn) - 1

RECURSIVE SumSeq(_)
SumSeq(s) == IF s = <<>> THEN 0 ELSE Head(s) + SumSeq(Tail(s))

\* C13: the counts of a histogram task summed over all bins are the number of
\* cells with a value >= 0 inside the index sub-range of the extent, and the
\* cells above the maximum level are counted in the top bin.
C13_CountsSumToIncludedCells ==
  (last.op = "_update_histogram" /\ ~Placeholder) =>
     LET data == local_data_source.masked_regrid
     IN  /\ SumSeq(hist_top) =
              Cardinality({rc \in ExtentCells : data[rc[1]][rc[2]] >= 0})
         /\ hist_top[NBins] =
              Cardinality({rc \in ExtentCells : data[rc[1]][rc[2]] >= lev[NBins]})

\* a histogram task has run over a part of a raster that holds a masked cell
\* and a cell above the maximum level
C13_Witness ==
  /\ last.op = "_update_histogram"
  /\ \E rc \in ExtentCells : local_data_source.masked_regrid[rc[1]][rc[2]] < 0
  /\ \E rc \in ExtentCells : local_data_source.masked_regrid[rc[1]][rc[2]] > MAX_VAL
  /\ Cardinality(ExtentCells) < 2 * Len(local_data_source.xn)
  /\ SumSeq(hist_top) > 0

\* the index range of the coordinates lo..hi is inside the axis and not
\* empty, and it is the first or the last index alone when lo..hi lies
\* outside the axis
RangeInside(axis, lo, hi) ==
  LET r == HistIndexRange(axis, lo, hi)
      n == Len(axis)
  IN  /\ 0 <= r.lo
      /\ r.lo < r.hi
      /\ r.hi <= n
      /\ hi < axis[1] => r = [lo |-> 0, hi |-> 1]
      /\ lo > axis[n] => r = [lo |-> n - 1, hi |-> n]

\* C14: for every extent the index range of the histogram task satisfies
\* 0 <= lo < hi <= n on both dimensions, and for an extent entirely outside
\* the axis on a dimension it is the clamped endpoint alone, [0,1) or [n-1,n).
C14_IndexRangeInsideAxis ==
  ~Placeholder =>
     /\ RangeInside(local_data_source.xn, range.left, range.right)
     /\ RangeInside(local_data_source.yn, range.bottom, range.top)
     /\ last.op = "_update_histogram" =>
          /\ ~last.raised
          /\ SumSeq(hist_top) <= Cardinality(ExtentCells)

\* a histogram task has run for an extent left of the first column and above
\* the last row: it has counted the one cell of that corner
C14_Witness ==
  /\ last.op = "_update_histogram"
  /\ range.right < local_data_source.xn[1]
  /\ range.bottom > local_data_source.yn[Len(local_data_source.yn)]
  /\ ExtentCells = {<<Len(local_data_source.yn), 1>>}
  /\ SumSeq(hist_top) = 1

\* C15: when the selection of a histogram task holds no included value the
\* task publishes counts that are all zero and a mean that is the number 0.
C15_EmptySelectionMeanZero ==
  (/\ last.op = "_update_histogram"
   /\ ~Placeholder
   /\ \A rc \in ExtentCells : local_data_source.masked_regrid[rc[1]][rc[2]] < 0) =>
     /\ ~last.raised
     /\ \A b \in 1..NBins : hist_top[b] = 0
     /\ info_data.mean[2] > 0
     /\ info_data.mean[1] = 0

\* C16: whenever the readout task reads the raster, the stored marker
\* indices are inside the active raster.
C16_MarkerIndicesInsideRaster ==
  (last.op = "_move_hist_line" /\ ~Placeholder) =>
     /\ hover_pt.y_idx < Len(local_data_source.masked_regrid)
     /\ hover_pt.x_idx < Len(local_data_source.masked_regrid[1])

C18_TasksWriteOnlyTheirViews ==
  [][/\ last'.op = "_update_histogram" =>
          /\ local_data_source' = local_data_source
          /\ rgba_img_source' = rgba_img_source
          /\ hover_pt' = hover_pt
          /\ info_data'.current_val = info_data.current_val
     /\ last'.op \in {"_move_click_marker", "_move_hist_line"} =>
          /\ local_data_source' = local_data_source
          /\ rgba_img_source' = rgba_img_source
          /\ range' = range
          /\ hist_top' = hist_top
          /\ info_data'.mean = info_data.mean
     /\ local_data_source' # local_data_source => last'.op = "_update_data"]_vars

\* a histogram task of the viewport channel has run after a click had set
\* the marker and its readout
C18_Witness ==
  /\ last.op = "_update_histogram"
  /\ last.src = "viewport"
  /\ ~last.raised
  /\ hoverGen.fire > 0
  /\ info_data.current_val # <<0>>

\* C19: whenever no histogram task is pending, and so once no callback is
\* pending and right after every histogram task, the published counts are the
\* histogram of the active raster over the current extent.
C19_NoViewportUpdateLost ==
  (~Placeholder /\ ~IsPending(timers, nextTick, "_update_histogram")) => CountsCurrent

\* a histogram task has run after a range change that was dropped because
\* the task was already pending
C19_Witness ==
  /\ last.op = "_update_histogram"
  /\ last.src = "viewport"
  /\ ~last.raised
  /\ last.quiet < last.age
  /\ CountsCurrent
  /\ range \in Extents

PendingCount(cb) ==
  Cardinality({i \in 1..Len(timers) : timers[i].cb = cb /\ ~timers[i].partial})
  + Cardinality({i \in 1..Len(nextTick) : nextTick[i].cb = cb /\ ~nextTick[i].partial})

\* C20: at most one histogram task and at most one debounced reload task is
\* pending.
C20_AtMostOnePendingTask ==
  /\ PendingCount("_update_histogram") <= 1
  /\ PendingCount("_update_data") <= 1

\* a range change has arrived while the histogram task was pending, and one
\* task is pending
C20_Witness ==
  /\ last.op = "update_histogram"
  /\ last.raised
  /\ PendingCount("_update_histogram") = 1

====
